---- MODULE Spec2Model ----
(***************************************************************************)
(* Model of the /invite handler of src/main.go (tezosagora).                *)
(*                                                                         *)
(* Every HTTP request is served by its own goroutine running handleInvite; *)
(* the goroutines share the key-value store db.  A goroutine is a process  *)
(* of the model; an action is the stretch of handleInvite from one call of *)
(* a collaborator (db.Get, http.Get, ChannelInviteCreate, db.Set) to the   *)
(* next one, the collaborator's reply being the action's input.            *)
(***************************************************************************)
EXTENDS Integers, Sequences, FiniteSets, TLC

\* Number of requests served (goroutines).
NumProcs == 2

Procs == 1..NumProcs

\* ---- program constants ------------------------------------------------
AddressLen == 36
StatusOK == 200
StatusBadRequest == 400
StatusNotFound == 404
StatusInternalServerError == 500
RandLow == 7200
RandHigh == 86399
InviteMaxUses == 1
\* The handler panicked: net/http closes the connection, no status is sent.
NoResponse == 0

DiscordURL == "https://discord.gg"

\* ---- inputs -------------------------------------------------------------
W1 == "tz1aaaaaaaaaaaaaaaaaaaaaaaaaaaaaaaaa"
W2 == "tz1bbbbbbbbbbbbbbbbbbbbbbbbbbbbbbbbb"
LongAddr == "tz1cccccccccccccccccccccccccccccccccc"
ShortAddr == "abc"

Wallets == {W1, W2}

EmptyForm == [k \in {} |-> <<>>]

\* r.ParseForm() either fails or fills r.Form, a map from field names to
\* the list of the values submitted under that name.
Requests ==
    { [parseErr |-> TRUE,  form |-> EmptyForm],
      [parseErr |-> FALSE, form |-> EmptyForm],
      [parseErr |-> FALSE, form |-> ("wallet" :> <<W1>>)],
      [parseErr |-> FALSE, form |-> ("address" :> <<W1>> @@ "extra" :> <<"x">>)],
      [parseErr |-> FALSE, form |-> ("address" :> <<ShortAddr>>)],
      [parseErr |-> FALSE, form |-> ("address" :> <<LongAddr>>)],
      [parseErr |-> FALSE, form |-> ("address" :> <<W1>>)],
      [parseErr |-> FALSE, form |-> ("address" :> <<W2, ShortAddr>>)] }

NoRequest == [parseErr |-> FALSE, form |-> EmptyForm]

\* Replies of http.Get: (nil, err) on a transport failure, (resp, err) when a
\* redirect could not be followed (resp is the 302 last received), (resp, nil)
\* otherwise.
HttpReplies ==
    { [hasResp |-> FALSE, statusCode |-> 0,              err |-> TRUE],
      [hasResp |-> TRUE,  statusCode |-> 302,            err |-> TRUE],
      [hasResp |-> TRUE,  statusCode |-> StatusNotFound, err |-> FALSE],
      [hasResp |-> TRUE,  statusCode |-> StatusOK,       err |-> FALSE] }

\* Codes the invite API returns.
Codes == {"abc123", "xyz789"}

\* Values of rand.Intn(86399-7200) the model draws: both ends of its range.
RandValues == {0, (RandHigh - RandLow) - 1}

VARIABLES
    store,      \* db: wallet -> invite URL
    pc,         \* where each goroutine stands in handleInvite
    req,        \* the request it serves
    address,    \* local address
    inviteURL,  \* local inviteURL of lines 196-212
    invite,     \* the discordgo.Invite of lines 87-90 sent to the issuer
    status,     \* status the client receives
    outcome,    \* which return of handleInvite ended the request
    body,       \* WebResp.Body rendered to the client
    calls       \* the collaborator calls the goroutine made, in order

vars == <<store, pc, req, address, inviteURL, invite, status, outcome, body, calls>>

Call(op, ok, val, code) == [op |-> op, ok |-> ok, val |-> val, code |-> code]

\* ---- the store ------------------------------------------------------------
\* db.Get(nil, key): (nil, nil) for an absent key, (nil, err) on failure.
DBGet(db, key, ok) ==
    IF ok /\ key \in DOMAIN db
    THEN [isNil |-> FALSE, bytes |-> db[key], err |-> FALSE]
    ELSE [isNil |-> TRUE,  bytes |-> "",      err |-> ~ok]

\* db.Set(key, value) inserts or overwrites.
DBSetClobber(db, key, value) == [k \in {key} |-> value]
DBSet(db, key, value) ==
    [k \in DOMAIN db \cup {key} |-> IF k = key THEN value ELSE db[k]]

\* ---- pure parts of the handler -------------------------------------------
\* len(address) != 36
BadLengthLoose(a) == Len(a) < AddressLen
BadLength(a) == Len(a) # AddressLen

\* len(r.Form) != 1
WrongFormSizeOnlyEmpty(form) == Cardinality(DOMAIN form) = 0
WrongFormSize(form) == Cardinality(DOMAIN form) # 1

\* _, exists := r.Form["address"]; !exists
MissingAddress(form) == "address" \notin DOMAIN form

\* isAlreadyRegistered, given what db.Get returned.
isAlreadyRegisteredNoErr(got) ==
    [registered |-> ~got.isNil, err |-> FALSE]
isAlreadyRegisteredNever(got) ==
    [registered |-> FALSE, err |-> got.err]
isAlreadyRegistered(got) ==
    IF got.err THEN [registered |-> FALSE, err |-> TRUE]
    ELSE IF ~got.isNil THEN [registered |-> TRUE, err |-> FALSE]
    ELSE [registered |-> FALSE, err |-> FALSE]

\* isValidWallet, given what http.Get returned.  resp.StatusCode is read
\* before err is looked at: with a nil resp the goroutine panics.
isValidWalletNo404(reply) ==
    IF ~reply.hasResp THEN [panic |-> TRUE, valid |-> FALSE, err |-> FALSE]
    ELSE IF reply.err THEN [panic |-> FALSE, valid |-> FALSE, err |-> TRUE]
    ELSE [panic |-> FALSE, valid |-> TRUE, err |-> FALSE]
isValidWallet(reply) ==
    IF ~reply.hasResp THEN [panic |-> TRUE, valid |-> FALSE, err |-> FALSE]
    ELSE IF reply.statusCode = StatusNotFound
         THEN [panic |-> FALSE, valid |-> FALSE, err |-> FALSE]
    ELSE IF reply.err THEN [panic |-> FALSE, valid |-> FALSE, err |-> TRUE]
    ELSE [panic |-> FALSE, valid |-> TRUE, err |-> FALSE]

\* expiration := rand.Intn(86399-7200) + 7200
ExpirationOffByOne(r) == r + RandLow + 1
Expiration(r) == r + RandLow

\* discordgo.Invite{MaxAge: expiration, MaxUses: 1}
NoInvite == [MaxAge |-> 0, MaxUses |-> 0]
NewInvite(r) == [MaxAge |-> Expiration(r), MaxUses |-> InviteMaxUses]

\* fmt.Sprintf("%v/%v", config.DiscordURL, i.Code)
InviteURLNoSlash(code) == DiscordURL \o code
InviteURL(code) == DiscordURL \o "/" \o code

\* ---- the handler --------------------------------------------------------
TypeOK ==
    /\ DOMAIN store \subseteq Wallets
    /\ pc \in [Procs -> {"idle", "dedupe", "readURL", "verify", "mint", "persist", "done"}]

Init ==
    /\ store = [k \in {} |-> ""]
    /\ pc = [p \in Procs |-> "idle"]
    /\ req = [p \in Procs |-> NoRequest]
    /\ address = [p \in Procs |-> ""]
    /\ inviteURL = [p \in Procs |-> ""]
    /\ invite = [p \in Procs |-> NoInvite]
    /\ status = [p \in Procs |-> NoResponse]
    /\ outcome = [p \in Procs |-> ""]
    /\ body = [p \in Procs |-> ""]
    /\ calls = [p \in Procs |-> <<>>]

\* A return of handleInvite: the status written (200 when none was), the
\* outcome of the request and the body rendered.
Return(p, st, oc, bd) ==
    /\ pc' = [pc EXCEPT ![p] = "done"]
    /\ status' = [status EXCEPT ![p] = st]
    /\ outcome' = [outcome EXCEPT ![p] = oc]
    /\ body' = [body EXCEPT ![p] = bd]

Goto(p, label) ==
    /\ pc' = [pc EXCEPT ![p] = label]
    /\ UNCHANGED <<status, outcome, body>>

Log(p, c) == calls' = [calls EXCEPT ![p] = Append(@, c)]

\* Lines 131-164: parse the form, check its shape and the address length.
\* Goroutines are interchangeable: they are numbered in the order they start.
Receive(p, r) ==
    /\ pc[p] = "idle"
    /\ \A q \in Procs : q < p => pc[q] # "idle"
    /\ req' = [req EXCEPT ![p] = r]
    /\ UNCHANGED <<store, inviteURL, invite, calls>>
    /\ IF r.parseErr
       THEN /\ Return(p, StatusOK, "BadInput", "")
            /\ UNCHANGED address
       ELSE IF WrongFormSize(r.form)
       THEN /\ Return(p, StatusBadRequest, "BadInput", "")
            /\ UNCHANGED address
       ELSE IF MissingAddress(r.form)
       THEN /\ Return(p, StatusBadRequest, "BadInput", "")
            /\ UNCHANGED address
       ELSE LET a == r.form["address"][1] IN
            /\ address' = [address EXCEPT ![p] = a]
            /\ IF BadLength(a)
               THEN Return(p, StatusBadRequest, "BadInput", "")
               ELSE Goto(p, "dedupe")

\* Lines 166-178 up to the second db.Get: isAlreadyRegistered(address, db).
Dedupe(p, ok) ==
    /\ pc[p] = "dedupe"
    /\ LET got == DBGet(store, address[p], ok)
           res == isAlreadyRegistered(got)
       IN /\ Log(p, Call("Get", ~got.err, got.bytes, 0))
          /\ IF res.err
             THEN Return(p, StatusInternalServerError, "StoreError", "")
             ELSE IF res.registered
             THEN Goto(p, "readURL")
             ELSE Goto(p, "verify")
    /\ UNCHANGED <<store, req, address, inviteURL, invite>>

\* Lines 174-177: inviteURL, _ := db.Get(nil, []byte(address)).
ReadURL(p, ok) ==
    /\ pc[p] = "readURL"
    /\ LET got == DBGet(store, address[p], ok)
       IN /\ Log(p, Call("Get", ~got.err, got.bytes, 0))
          /\ Return(p, StatusOK, "AlreadyRegistered", got.bytes)
    /\ UNCHANGED <<store, req, address, inviteURL, invite>>

\* Lines 182-193: isValidWallet(address).
Verify(p, reply) ==
    /\ pc[p] = "verify"
    /\ LET res == isValidWallet(reply)
       IN /\ Log(p, Call("Verify", ~reply.err, "", reply.statusCode))
          /\ IF res.panic
             THEN Return(p, NoResponse, "Panic", "")
             ELSE IF res.err
             THEN Return(p, StatusInternalServerError, "UpstreamError", "")
             ELSE IF ~res.valid
             THEN Return(p, StatusOK, "WalletNotFound", "")
             ELSE Goto(p, "mint")
    /\ UNCHANGED <<store, req, address, inviteURL, invite>>

\* Lines 196-201: generateInvite(config.ChannelID, discord).
MintNoErrCheck(p, ok, code, r) ==
    /\ pc[p] = "mint"
    /\ invite' = [invite EXCEPT ![p] = NewInvite(r)]
    /\ Log(p, Call("Issue", ok, IF ok THEN code ELSE "", Expiration(r)))
    /\ inviteURL' = [inviteURL EXCEPT ![p] = IF ok THEN InviteURL(code) ELSE ""]
    /\ Goto(p, "persist")
    /\ UNCHANGED <<store, req, address>>
Mint(p, ok, code, r) ==
    /\ pc[p] = "mint"
    /\ invite' = [invite EXCEPT ![p] = NewInvite(r)]
    /\ IF ok
       THEN /\ Log(p, Call("Issue", TRUE, code, Expiration(r)))
            /\ inviteURL' = [inviteURL EXCEPT ![p] = InviteURL(code)]
            /\ Goto(p, "persist")
       ELSE /\ Log(p, Call("Issue", FALSE, "", Expiration(r)))
            /\ UNCHANGED inviteURL
            /\ Return(p, StatusInternalServerError, "IssuerError", "")
    /\ UNCHANGED <<store, req, address>>

\* Lines 205-214: db.Set(address, inviteURL) and the final response.
PersistNoErrCheck(p, ok) ==
    /\ pc[p] = "persist"
    /\ Log(p, Call("Set", ok, inviteURL[p], 0))
    /\ store' = IF ok THEN DBSet(store, address[p], inviteURL[p]) ELSE store
    /\ Return(p, StatusOK, "Issued", inviteURL[p])
    /\ UNCHANGED <<req, address, inviteURL, invite>>
Persist(p, ok) ==
    /\ pc[p] = "persist"
    /\ Log(p, Call("Set", ok, inviteURL[p], 0))
    /\ IF ok
       THEN /\ store' = DBSet(store, address[p], inviteURL[p])
            /\ Return(p, StatusOK, "Issued", inviteURL[p])
       ELSE /\ UNCHANGED store
            /\ Return(p, StatusInternalServerError, "StoreError", "")
    /\ UNCHANGED <<req, address, inviteURL, invite>>

Step(p) ==
    \/ \E r \in Requests : Receive(p, r)
    \/ \E ok \in BOOLEAN : Dedupe(p, ok)
    \/ \E ok \in BOOLEAN : ReadURL(p, ok)
    \/ \E reply \in HttpReplies : Verify(p, reply)
    \/ \E ok \in BOOLEAN, code \in Codes, r \in RandValues : Mint(p, ok, code, r)
    \/ \E ok \in BOOLEAN : Persist(p, ok)

\* net/http: one goroutine per request, no serialization across requests.
Next == \E p \in Procs : Step(p)

Spec == Init /\ [][Next]_vars

\* Requests served one after the other: a request starts only when no other
\* request is being served.
Quiet(p) == \A q \in Procs \ {p} : pc[q] \in {"idle", "done"}

SeqNext == \E p \in Procs : Quiet(p) /\ Step(p)

SeqSpec == Init /\ [][SeqNext]_vars

\* One request for an existing unregistered wallet, up to its call of the
\* issuer, rand.Intn(86399-7200) ranging over all its values.
RandN == RandHigh - RandLow

ExpNext ==
    \/ Receive(1, [parseErr |-> FALSE, form |-> ("address" :> <<W1>>)])
    \/ Dedupe(1, TRUE)
    \/ Verify(1, [hasResp |-> TRUE, statusCode |-> StatusOK, err |-> FALSE])
    \/ /\ pc[1] = "mint"
       /\ \E ok \in BOOLEAN, r \in 0..(RandN - 1) : Mint(1, ok, "abc123", r)

ExpSpec == Init /\ [][ExpNext]_vars

\* ---- what a request did ---------------------------------------------------
Done(p) == pc[p] = "done"

CallIdx(p, op) == {i \in 1..Len(calls[p]) : calls[p][i].op = op}

Count(p, op) == Cardinality(CallIdx(p, op))

\* Some call of p to op failed.
FailedCall(p, op) == \E i \in CallIdx(p, op) : ~calls[p][i].ok

\* p wrote a record to the store.
Wrote(p) == \E i \in CallIdx(p, "Set") : calls[p][i].ok

\* No collaborator failed while serving p, and the verifier, if asked,
\* reported the wallet as existing.
NoFailure(p) ==
    \A i \in 1..Len(calls[p]) :
        /\ calls[p][i].ok
        /\ calls[p][i].op = "Verify" => calls[p][i].code = StatusOK

\* The request carries the single field address.
HasAddress(r) == ~r.parseErr /\ DOMAIN r.form = {"address"}

\* The requests started for wallet w.
RunsFor(w) == {p \in Procs : pc[p] # "idle" /\ address[p] = w}

\* The invites minted for wallet w.
MintedFor(w) ==
    UNION { { <<p, i>> : i \in {j \in CallIdx(p, "Issue") : calls[p][j].ok} } :
            p \in RunsFor(w) }

\* ---- claims ---------------------------------------------------------------

\* C1: two or more concurrent requests for the same unregistered wallet that
\* the verifier reports as existing, none meeting a failure, together mint
\* exactly one invite and leave one record for the wallet.
C1_ExactlyOneInvite ==
    \A w \in Wallets :
        ( /\ Cardinality(RunsFor(w)) >= 2
          /\ \A p \in RunsFor(w) : Done(p) /\ NoFailure(p) )
        => /\ Cardinality(MintedFor(w)) = 1
           /\ w \in DOMAIN store

\* C2: once the store holds a record for a wallet, the record is never
\* removed and its invite URL never changes.
C2_RecordNeverChanges ==
    [][\A w \in DOMAIN store : w \in DOMAIN store' /\ store'[w] = store[w]]_vars

\* C3: of two requests served one after the other for the same existing
\* wallet, unregistered before the first, with no collaborator failing, the
\* first ends Issued, the second AlreadyRegistered with the same invite URL,
\* and the issuer is called at most once over both.
C3_Pair(p, q) ==
    /\ p < q
    /\ Done(p) /\ Done(q)
    /\ HasAddress(req[p]) /\ HasAddress(req[q])
    /\ req[p].form["address"][1] = req[q].form["address"][1]
    /\ Len(req[p].form["address"][1]) = AddressLen
    /\ NoFailure(p) /\ NoFailure(q)
    /\ \A r \in Procs : r < p /\ address[r] = address[p] => ~Wrote(r)

C3_TwiceInSequence ==
    \A p, q \in Procs :
        C3_Pair(p, q)
        => /\ outcome[p] = "Issued"
           /\ outcome[q] = "AlreadyRegistered"
           /\ body[q] = body[p]
           /\ Count(p, "Issue") + Count(q, "Issue") <= 1

C3_Witness ==
    \E p, q \in Procs :
        /\ C3_Pair(p, q)
        /\ outcome[q] = "AlreadyRegistered"
        /\ body[q] = InviteURL("abc123")

\* C4: a verifier lookup that fails with an error and no response ends the
\* request with UpstreamError and status 500, no invite minted, no store
\* write.
C4_TransportFailureIs500 ==
    \A p \in Procs :
        ( /\ Done(p)
          /\ \E i \in CallIdx(p, "Verify") :
                ~calls[p][i].ok /\ calls[p][i].code = NoResponse )
        => /\ outcome[p] = "UpstreamError"
           /\ status[p] = StatusInternalServerError
           /\ Count(p, "Issue") = 0
           /\ Count(p, "Set") = 0

\* C5: a request whose address is not 36 characters long ends with BadInput
\* and status 400 and calls neither the store, the verifier nor the issuer.
C5_BadLengthRejected ==
    \A p \in Procs :
        ( /\ pc[p] # "idle"
          /\ HasAddress(req[p])
          /\ Len(req[p].form["address"][1]) # AddressLen )
        => /\ Done(p)
           /\ outcome[p] = "BadInput"
           /\ status[p] = StatusBadRequest
           /\ calls[p] = <<>>

C5_Witness ==
    \E p, q \in Procs :
        /\ Done(p) /\ address[p] = ShortAddr /\ status[p] = StatusBadRequest
        /\ Done(q) /\ address[q] = LongAddr /\ status[q] = StatusBadRequest

\* C6: a request for a 36-character unregistered wallet whose lookup is
\* answered not-found ends with WalletNotFound, calls the issuer never and
\* the store's write never; unless another request registers the wallet, the
\* store holds no record for it.
C6_NotFound ==
    \A p \in Procs :
        ( /\ Len(address[p]) = AddressLen
          /\ \E i \in CallIdx(p, "Verify") : calls[p][i].code = StatusNotFound )
        => /\ Done(p)
           /\ outcome[p] = "WalletNotFound"
           /\ Count(p, "Issue") = 0
           /\ Count(p, "Set") = 0
           /\ (\A q \in RunsFor(address[p]) : ~Wrote(q))
                => address[p] \notin DOMAIN store

C6_Witness ==
    \E p \in Procs :
        /\ Done(p)
        /\ outcome[p] = "WalletNotFound"
        /\ Count(p, "Verify") = 1
        /\ address[p] \notin DOMAIN store

\* C7: when the issuer returned code c and the store write succeeds, the
\* request ends Issued with the URL DiscordURL/c, and the store then maps the
\* wallet to exactly that URL.
C7_IssuedURL ==
    [][\A p \in Procs :
         ( /\ pc[p] = "persist"
           /\ pc'[p] = "done"
           /\ calls'[p][Len(calls'[p])].ok )
         => \E i \in CallIdx(p, "Issue") :
              LET url == DiscordURL \o "/" \o calls[p][i].val IN
              /\ calls[p][i].ok
              /\ Len(address[p]) = AddressLen
              /\ outcome'[p] = "Issued"
              /\ body'[p] = url
              /\ address[p] \in DOMAIN store'
              /\ store'[address[p]] = url]_vars

C7_Witness ==
    \E p \in Procs :
        /\ Done(p)
        /\ outcome[p] = "Issued"
        /\ body[p] = "https://discord.gg/abc123"
        /\ address[p] \in DOMAIN store
        /\ store[address[p]] = body[p]

\* C8: when the first store lookup fails, the request ends with StoreError
\* and status 500, having called neither the verifier nor the issuer nor the
\* store's write.
C8_DedupeFailure ==
    \A p \in Procs :
        ( /\ calls[p] # <<>>
          /\ calls[p][1].op = "Get"
          /\ ~calls[p][1].ok )
        => /\ Done(p)
           /\ outcome[p] = "StoreError"
           /\ status[p] = StatusInternalServerError
           /\ Len(calls[p]) = 1

C8_Witness ==
    \E p \in Procs :
        /\ Done(p)
        /\ outcome[p] = "StoreError"
        /\ calls[p] = <<Call("Get", FALSE, "", 0)>>

\* C9: a request during which a store read or a store write failed ends with
\* StoreError and status 500.
C9_StoreFailureIs500 ==
    \A p \in Procs :
        (Done(p) /\ (FailedCall(p, "Get") \/ FailedCall(p, "Set")))
        => /\ outcome[p] = "StoreError"
           /\ status[p] = StatusInternalServerError

\* C10: a request whose first lookup finds a record ends AlreadyRegistered
\* with the stored URL as its payload, and calls neither the verifier nor the
\* issuer nor the store's write.
C10_AlreadyRegistered ==
    \A p \in Procs :
        ( /\ Done(p)
          /\ calls[p] # <<>>
          /\ calls[p][1].ok
          /\ calls[p][1].val # "" )
        => /\ outcome[p] = "AlreadyRegistered"
           /\ body[p] = calls[p][1].val
           /\ Count(p, "Verify") = 0
           /\ Count(p, "Issue") = 0
           /\ Count(p, "Set") = 0

\* ---- status, form and ordering claims -------------------------------------
Outcomes ==
    {"BadInput", "AlreadyRegistered", "WalletNotFound", "UpstreamError",
     "IssuerError", "StoreError", "Issued"}

\* C11: the status of a completed request is determined by its outcome: 400
\* for BadInput, 500 for UpstreamError, IssuerError and StoreError, 200 for
\* Issued, AlreadyRegistered and WalletNotFound.
C11_StatusByOutcome ==
    \A p \in Procs :
        Done(p)
        => /\ outcome[p] = "BadInput" => status[p] = StatusBadRequest
           /\ outcome[p] \in {"UpstreamError", "IssuerError", "StoreError"}
                => status[p] = StatusInternalServerError
           /\ outcome[p] \in {"Issued", "AlreadyRegistered", "WalletNotFound"}
                => status[p] = StatusOK

\* C12: a well-formed submission with no field, with more than one field, or
\* with a single field not named address is answered 400 before the store,
\* the verifier or the issuer is called.
C12_Case(r) ==
    /\ ~r.parseErr
    /\ \/ Cardinality(DOMAIN r.form) = 0
       \/ Cardinality(DOMAIN r.form) > 1
       \/ Cardinality(DOMAIN r.form) = 1 /\ "address" \notin DOMAIN r.form

C12_BadFormRejected ==
    \A p \in Procs :
        (pc[p] # "idle" /\ C12_Case(req[p]))
        => /\ Done(p)
           /\ status[p] = StatusBadRequest
           /\ calls[p] = <<>>

C12_Witness ==
    \E p, q \in Procs :
        /\ Done(p) /\ DOMAIN req[p].form = {"address", "extra"}
        /\ Done(q) /\ DOMAIN req[q].form = {"wallet"}
        /\ status[p] = StatusBadRequest /\ status[q] = StatusBadRequest

\* C13: a submission whose form cannot be parsed is answered 400, touches the
\* store not at all and mints no invite.
C13_MalformedIs400 ==
    \A p \in Procs :
        (pc[p] # "idle" /\ req[p].parseErr)
        => /\ Done(p)
           /\ status[p] = StatusBadRequest
           /\ calls[p] = <<>>

\* C14: a request that has ended has one of the seven outcomes, and a request
\* calls the verifier, the issuer and the store's write at most once each.
C14_OneOutcomeNoRetry ==
    \A p \in Procs :
        /\ Done(p) => outcome[p] \in Outcomes
        /\ ~Done(p) => outcome[p] = ""
        /\ Count(p, "Verify") <= 1
        /\ Count(p, "Issue") <= 1
        /\ Count(p, "Set") <= 1

\* C15: within a request the calls come in the order dedupe read, verify,
\* mint, persist, all after validation: the issuer is called only after the
\* verifier reported the wallet as existing, the store is written only after
\* the issuer succeeded.
C15_FixedOrder ==
    \A p \in Procs :
        /\ calls[p] # <<>>
             => Len(address[p]) = AddressLen /\ calls[p][1].op = "Get"
        /\ \A i \in CallIdx(p, "Verify") :
             \E j \in CallIdx(p, "Get") : j < i /\ calls[p][j].ok
        /\ \A i \in CallIdx(p, "Issue") :
             \E j \in CallIdx(p, "Verify") :
                /\ j < i
                /\ calls[p][j].ok
                /\ calls[p][j].code \notin {StatusNotFound, NoResponse}
        /\ \A i \in CallIdx(p, "Set") :
             \E j \in CallIdx(p, "Issue") : j < i /\ calls[p][j].ok

C15_Witness ==
    \E p \in Procs :
        /\ Done(p)
        /\ Len(calls[p]) = 4
        /\ calls[p][1].op = "Get" /\ calls[p][2].op = "Verify"
        /\ calls[p][3].op = "Issue" /\ calls[p][4].op = "Set"

\* ---- failures after and in the mint, the invite request --------------------

\* C16: when the store write fails after an invite was minted, the request
\* ends with StoreError and status 500 and returns no invite URL, it has
\* written nothing, and the wallet has no record unless another request for
\* it wrote one.  (That a later request for the wallet then mints a second
\* invite is the witness.)
C16_PersistFailure ==
    \A p \in Procs :
        FailedCall(p, "Set")
        => /\ Done(p)
           /\ outcome[p] = "StoreError"
           /\ status[p] = StatusInternalServerError
           /\ body[p] = ""
           /\ \E i \in CallIdx(p, "Issue") : calls[p][i].ok
           /\ ~Wrote(p)
           /\ (\A q \in RunsFor(address[p]) : ~Wrote(q))
                => address[p] \notin DOMAIN store

C16_Witness ==
    \E p, q \in Procs :
        /\ p < q
        /\ Done(p) /\ FailedCall(p, "Set")
        /\ address[q] = address[p]
        /\ \E i \in CallIdx(q, "Issue") : calls[q][i].ok
        /\ Cardinality(MintedFor(address[p])) = 2

\* C17: when the issuer fails, the request ends with IssuerError and status
\* 500, has called the issuer once and the store's write never, and the
\* wallet has no record unless another request for it wrote one.
C17_IssuerFailure ==
    \A p \in Procs :
        FailedCall(p, "Issue")
        => /\ Done(p)
           /\ outcome[p] = "IssuerError"
           /\ status[p] = StatusInternalServerError
           /\ Count(p, "Issue") = 1
           /\ Count(p, "Set") = 0
           /\ (\A q \in RunsFor(address[p]) : ~Wrote(q))
                => address[p] \notin DOMAIN store

C17_Witness ==
    \E p \in Procs :
        /\ Done(p)
        /\ outcome[p] = "IssuerError"
        /\ FailedCall(p, "Issue")
        /\ address[p] \notin DOMAIN store

\* C18: every invite request sent to the issuer has maximum redemption count
\* 1 and an expiration age e with 7200 <= e < 86399, for every value of the
\* random source.
C18_InviteRequest ==
    \A p \in Procs :
        Count(p, "Issue") > 0
        => /\ invite[p].MaxUses = 1
           /\ 7200 <= invite[p].MaxAge
           /\ invite[p].MaxAge < 86399
           /\ \A i \in CallIdx(p, "Issue") : calls[p][i].code = invite[p].MaxAge

C18_Witness ==
    \E p \in Procs :
        /\ Count(p, "Issue") = 1
        /\ invite[p] = [MaxAge |-> 86398, MaxUses |-> 1]

\* ---- the store's records ---------------------------------------------------

\* C19: every record of the store maps a 36-character wallet to the URL of a
\* code the issuer returned to a request for that wallet; the store changes
\* only in the successful write of a request that minted an invite, which
\* changes the record of its own wallet only; a request ending BadInput,
\* AlreadyRegistered, WalletNotFound, UpstreamError or IssuerError leaves the
\* store as it is.
C19_StoreRecords ==
    [][ /\ \A w \in DOMAIN store' :
             /\ Len(w) = AddressLen
             /\ \E p \in Procs :
                  /\ address'[p] = w
                  /\ \E i \in 1..Len(calls'[p]) :
                       /\ calls'[p][i].op = "Issue"
                       /\ calls'[p][i].ok
                       /\ store'[w] = DiscordURL \o "/" \o calls'[p][i].val
        /\ store' # store
             => \E p \in Procs :
                  /\ pc[p] = "persist" /\ pc'[p] = "done"
                  /\ outcome'[p] = "Issued"
                  /\ \E i \in CallIdx(p, "Issue") : calls[p][i].ok
                  /\ DOMAIN store' = DOMAIN store \cup {address[p]}
                  /\ \A w \in DOMAIN store \ {address[p]} : store'[w] = store[w]
        /\ \A p \in Procs :
             ( /\ pc[p] # "done" /\ pc'[p] = "done"
               /\ outcome'[p] \in {"BadInput", "AlreadyRegistered",
                                   "WalletNotFound", "UpstreamError",
                                   "IssuerError"} )
             => store' = store ]_vars

C19_Witness ==
    /\ DOMAIN store = {W1, W2}
    /\ store[W1] = "https://discord.gg/abc123"
    /\ store[W2] = "https://discord.gg/xyz789"

\* C20: requests for distinct wallets do not interfere: a request that is the
\* only one for its existing, unregistered wallet and meets no failure ends
\* Issued, its wallet has exactly one minted invite and one record, and the
\* record is the URL the request returned, whatever the other requests do.
C20_Alone(p) ==
    /\ Done(p)
    /\ HasAddress(req[p])
    /\ Len(address[p]) = AddressLen
    /\ RunsFor(address[p]) = {p}
    /\ NoFailure(p)

C20_DistinctWallets ==
    \A p \in Procs :
        C20_Alone(p)
        => /\ outcome[p] = "Issued"
           /\ Cardinality(MintedFor(address[p])) = 1
           /\ address[p] \in DOMAIN store
           /\ store[address[p]] = body[p]
           /\ \E i \in CallIdx(p, "Issue") : body[p] = InviteURL(calls[p][i].val)

C20_Witness ==
    \E p, q \in Procs :
        /\ C20_Alone(p) /\ C20_Alone(q)
        /\ address[p] = W1 /\ address[q] = W2
        /\ store[W1] = body[p] /\ store[W2] = body[q]
        /\ Cardinality(MintedFor(W1)) = 1 /\ Cardinality(MintedFor(W2)) = 1

====
